---- MODULE Spec2Model ----
(***************************************************************************)
(* A model of reddit-research-tools: the two batch pipelines analyze_mock  *)
(* and analyze_live (offline and live acquisition, window filtering,       *)
(* keyword enrichment, ranking, report writing, run log), and the two pure *)
(* functions they share, keyword_hits and the ranking sort.                *)
(*                                                                         *)
(* Texts and keywords are sequences of one-character strings, so that      *)
(* lower-casing and substring search are computed, not assumed.            *)
(***************************************************************************)
EXTENDS Integers, Sequences, FiniteSets, TLC

VARIABLES
    \* ---- keyword matcher under test (SpecMatch)
    m_text,        \* the text argument of keyword_hits (NoneText or a string)
    m_keywords,    \* the keywords argument
    m_hits,        \* what keyword_hits returned
    m_pc,          \* "idle" | "ready" | "done"
    \* ---- ranker under test (SpecRank)
    r_batch,       \* the enriched batch before the sort
    r_ranked,      \* the list after enriched.sort(...)
    r_pc,          \* "idle" | "ready" | "done"
    \* ---- one run of a pipeline (Spec)
    script,        \* "mock" (analyze_mock.py) | "live" (analyze_live.py)
    pc,            \* where the run is
    clock,         \* the wall clock, in seconds since the epoch
    cfg,           \* main()'s configuration: as configured, and hours, per_sub_limit
    env,           \* what make_reddit has read of the environment
    dataset,       \* data/mock_posts.json as json.load returned it
    now,           \* `now` of load_posts / load_mock_posts
    cutoff,        \* `cutoff` of fetch_posts / of main's offline branch
    posts,         \* `posts` of main (all_posts while fetch_posts runs)
    filtered,      \* `filtered` of analyze_mock.main
    idx,           \* loop position: record (mock filter) or community (fetch)
    feed_read,     \* the entries sr.new() has yielded for this community
    scanned,       \* `scanned` of fetch_posts
    kept,          \* `kept` of fetch_posts
    enriched,      \* `enriched` of main, ranked
    written,       \* the artifacts written so far
    log            \* the lines of logs/run.log or logs/run_live.log

mvars == <<m_text, m_keywords, m_hits, m_pc>>
rvars == <<r_batch, r_ranked, r_pc>>
pvars == <<script, pc, clock, cfg, env, dataset, now, cutoff, posts, filtered,
           idx, feed_read, scanned, kept, enriched, written, log>>
vars == <<mvars, rvars, pvars>>

(***************************************************************************)
(* Bounds of the model                                                     *)
(***************************************************************************)
MaxText == 3
MaxKeywords == 2
MaxBatch == 3
MaxRecords == 2     \* records in the offline dataset
MaxFeed == 2        \* entries a community's feed yields
MaxTicks == 1       \* seconds the clock advances during a run

(***************************************************************************)
(* Constants of the program                                                *)
(***************************************************************************)
SecondsPerHour == 3600
SpreadHours == 6
DefaultWindowHours == 72
MockWindowHours == 72
DefaultPerSubLimit == 250
TopLive == 15
TopMock == 10

\* The clock when the run starts.
Clock0 == 100 * SecondsPerHour

(***************************************************************************)
(* Strings                                                                 *)
(***************************************************************************)
\* str.lower() on the characters the model uses; every other character is
\* its own lower case.
LowerChar(c) ==
    CASE c = "A" -> "a"
      [] c = "B" -> "b"
      [] c = "F" -> "f"
      [] c = "N" -> "n"
      [] OTHER -> c

Lower(s) == [i \in 1..Len(s) |-> LowerChar(s[i])]

\* Python's None, for a text or a keyword that is not a string.
NoneText == [none |-> TRUE, s |-> <<>>]
Str(s) == [none |-> FALSE, s |-> s]

\* `x or ""`: None and the empty string are falsy.
OrEmpty(x) == IF x.none \/ x.s = <<>> THEN <<>> ELSE x.s

\* Does needle start at position i of hay, compared character by character?
RECURSIVE MatchAt(_, _, _, _)
MatchAt(needle, hay, i, j) ==
    IF j > Len(needle) THEN TRUE
    ELSE IF i + j - 1 > Len(hay) THEN FALSE
    ELSE IF hay[i + j - 1] # needle[j] THEN FALSE
    ELSE MatchAt(needle, hay, i, j + 1)

\* `needle in hay` for two str: a left-to-right search over the start
\* positions; the empty needle is found at the first one.
RECURSIVE FindFrom(_, _, _)
FindFrom(needle, hay, i) ==
    IF i + Len(needle) - 1 > Len(hay) THEN FALSE
    ELSE IF MatchAt(needle, hay, i, 1) THEN TRUE
    ELSE FindFrom(needle, hay, i + 1)

StrIn(needle, hay) == FindFrom(needle, hay, 1)

\* keyword_hits mutated: the keyword is not lower-cased before the search.
RECURSIVE hits_no_lower(_, _)
hits_no_lower(text, keywords) ==
    IF keywords = <<>> THEN <<>>
    ELSE LET k == Head(keywords)
             rest == hits_no_lower(text, Tail(keywords))
         IN  IF StrIn(OrEmpty(k), Lower(OrEmpty(text)))
             THEN <<k>> \o rest ELSE rest

\* t = (text or "").lower(); [k for k in keywords if (k or "").lower() in t]
RECURSIVE keyword_hits(_, _)
keyword_hits(text, keywords) ==
    IF keywords = <<>> THEN <<>>
    ELSE LET t == Lower(OrEmpty(text))
             k == Head(keywords)
             rest == keyword_hits(text, Tail(keywords))
         IN  IF StrIn(Lower(OrEmpty(k)), t) THEN <<k>> \o rest ELSE rest

(***************************************************************************)
(* Ranking                                                                 *)
(***************************************************************************)
Reverse(s) == [i \in 1..Len(s) |-> s[Len(s) + 1 - i]]

\* The sort key with the first two priorities exchanged.
sort_key_score_first(x) == <<x.score, x.keyword_hit_count, x.num_comments>>

\* key=lambda x: (x.get("keyword_hit_count", 0), x.get("score", 0),
\*                x.get("num_comments", 0))
sort_key(x) == <<x.keyword_hit_count, x.score, x.num_comments>>

\* Python's comparison of two tuples of integers of the same length.
RECURSIVE TupleLess(_, _)
TupleLess(a, b) ==
    IF a = <<>> THEN FALSE
    ELSE IF Head(a) < Head(b) THEN TRUE
    ELSE IF Head(a) > Head(b) THEN FALSE
    ELSE TupleLess(Tail(a), Tail(b))

\* One step of the insertion sort list.sort runs on a short list: x goes
\* after every element of the sorted prefix whose key is not greater.
RECURSIVE InsertAsc(_, _)
InsertAsc(sorted, x) ==
    IF sorted = <<>> THEN <<x>>
    ELSE IF TupleLess(sort_key(x), sort_key(Head(sorted)))
         THEN <<x>> \o sorted
         ELSE <<Head(sorted)>> \o InsertAsc(Tail(sorted), x)

RECURSIVE SortAsc(_, _)
SortAsc(sorted, rest) ==
    IF rest = <<>> THEN sorted
    ELSE SortAsc(InsertAsc(sorted, Head(rest)), Tail(rest))

\* enriched.sort(key=..., reverse=True): the list is reversed, sorted
\* ascending and stably, and reversed again.
rank(batch) == Reverse(SortAsc(<<>>, Reverse(batch)))

(***************************************************************************)
(* Inputs of the two pure functions                                        *)
(***************************************************************************)
Alphabet == {"a", "A", "b"}

KeywordChoices ==
    {NoneText, Str(<<>>), Str(<<"a">>), Str(<<"B">>),
     Str(<<"a", "b">>), Str(<<"b", "a">>)}

\* The scenario of the specification: keywords ["fix", "repair"] on the
\* text "Need a Fix for my car".
ScenarioText ==
    Str(<<"N","e","e","d"," ","a"," ","F","i","x"," ",
          "f","o","r"," ","m","y"," ","c","a","r">>)
KwFix == Str(<<"f","i","x">>)
KwRepair == Str(<<"r","e","p","a","i","r">>)
ScenarioKeywords == <<KwFix, KwRepair>>

HitCounts == {1, 2}
Scores == {10, 20, 100}
CommentCounts == {0, 1}

\* An enriched post as the ranker reads it; id is its place in the batch.
RankedPost(i, h, s, c) ==
    [id |-> i, keyword_hit_count |-> h, score |-> s, num_comments |-> c]

\* The batch of n posts whose keys f gives
Batch(n, f) == [i \in 1..n |-> RankedPost(i, f[i][1], f[i][2], f[i][3])]

(***************************************************************************)
(* Inputs of a pipeline run                                                *)
(***************************************************************************)
Communities == {"a", "b"}

\* The title the model gives the posts of a community.
TitleOf(sub) == IF sub = "a" THEN <<"A">> ELSE <<"b">>

\* config.yaml. state: "ok", "missing" (open() raises) or "empty"
\* (yaml.safe_load returns None). window_hours and per_sub_limit 0 stand for
\* an absent or zero value: both are falsy.
ConfigFile(st, subs, kws, w, l) ==
    [state |-> st, subreddits |-> subs, keywords |-> kws,
     window_hours |-> w, per_sub_limit |-> l]

NoConfig == ConfigFile("missing", <<>>, <<>>, 0, 0)
EmptyConfig == ConfigFile("empty", <<>>, <<>>, 0, 0)

\* The configurations: the empty file is the one without keywords.
ConfigFiles ==
    {NoConfig, EmptyConfig} \cup
    { ConfigFile("ok", subs, <<Str(<<"a">>)>>, w, l) :
        subs \in {<<>>, <<"a">>, <<"a", "b">>},
        w \in {0, SpreadHours},
        l \in {0, 1} }

\* A record of mock_posts.json. mapping: is it a JSON object? created_utc 0
\* stands for an absent, null or zero value.
RawRecord(m, sub, id, c) ==
    [mapping |-> m, subreddit |-> sub, id |-> id, title |-> TitleOf(sub),
     selftext |-> <<>>, created_utc |-> c, score |-> 0, num_comments |-> 0]

RecordCreated == {0, Clock0 - SpreadHours * SecondsPerHour,
                     Clock0 - MockWindowHours * SecondsPerHour}

RecordShapes ==
    {<<FALSE, "a", 0>>} \cup
    {<<TRUE, sub, c>> : sub \in Communities, c \in RecordCreated}

\* The dataset of n records whose shapes f gives: every record carries its
\* own place as its id.
Dataset(n, f) == [i \in 1..n |-> RawRecord(f[i][1], f[i][2], i, f[i][3])]

\* An entry of a community's feed. missing names the attribute the entry
\* lacks ("none": it has them all).
FeedEntry(missing, c) ==
    [missing |-> missing, created_utc |-> c, score |-> 5, num_comments |-> 2]

FeedCreated == {Clock0 - SpreadHours * SecondsPerHour,
                Clock0 - (DefaultWindowHours + 1) * SecondsPerHour}

FeedEntries ==
    {FeedEntry(m, c) : m \in {"none", "id", "score"}, c \in FeedCreated}
    \cup {FeedEntry("created_utc", 0)}

CredNames == {"REDDIT_CLIENT_ID", "REDDIT_CLIENT_SECRET", "REDDIT_USER_AGENT"}

\* The environment after load_dotenv: OFFLINE_MODE, whether praw imported,
\* and the three credentials after .strip() ("" when missing or blank).
Envs ==
    [offline : BOOLEAN, praw : BOOLEAN, creds : [CredNames -> {"", "x"}]]

(***************************************************************************)
(* The functions of the pipelines                                          *)
(***************************************************************************)
\* log(msg): one line, "[ts] msg".
log_line(ts, msg) == [ts |-> ts, msg |-> msg]

\* int(cfg.get("window_hours") or 72) of analyze_live.main
live_hours(w) == IF w = 0 THEN DefaultWindowHours ELSE w

\* int(cfg.get("per_sub_limit") or 250)
live_limit(l) == IF l = 0 THEN DefaultPerSubLimit ELSE l

\* What main() holds of the configuration: subreddits, keywords and
\* window_hours as configured, and its locals hours and per_sub_limit.
Config(file, h, l) ==
    [subreddits |-> file.subreddits, keywords |-> file.keywords,
     window_hours |-> file.window_hours, hours |-> h, per_sub_limit |-> l]

UnsetConfig == Config(NoConfig, 0, 0)

\* main()'s reading of the configuration. analyze_live reads `... or {}`
\* and the window and the limit; analyze_mock fixes hours = 72.
main_config(s, file) ==
    IF s = "live"
    THEN Config(file, live_hours(file.window_hours), live_limit(file.per_sub_limit))
    ELSE Config(file, MockWindowHours, 0)

\* Does load_config() followed by cfg.get(...) raise? The missing file does
\* in both scripts; the empty file only in analyze_mock, which calls
\* cfg.get on None.
config_raises(s, file) ==
    \/ file.state = "missing"
    \/ s = "mock" /\ file.state = "empty"

Post(sub, id, title, selftext, c, score, ncomments) ==
    [subreddit |-> sub, id |-> id, title |-> title, selftext |-> selftext,
     created_utc |-> c, score |-> score, num_comments |-> ncomments]

\* created_utc of record number i (from 0) when the record has none
spread_created(n, i) == n - i * SpreadHours * SecondsPerHour

Normalized(p, n, i) ==
    Post(p.subreddit, p.id, p.title, p.selftext,
         IF p.created_utc = 0 THEN spread_created(n, i) ELSE p.created_utc,
         p.score, p.num_comments)

\* analyze_live.load_mock_posts: the loop over enumerate(posts), from i on
RECURSIVE load_mock_posts(_, _, _)
load_mock_posts(ds, n, i) ==
    IF i >= Len(ds) THEN <<>>
    ELSE IF ~ds[i + 1].mapping THEN load_mock_posts(ds, n, i + 1)
    ELSE <<Normalized(ds[i + 1], n, i)>> \o load_mock_posts(ds, n, i + 1)

\* analyze_mock.load_posts raises on the first record that has no .get
load_posts_raises(ds) == \E i \in 1..Len(ds) : ~ds[i].mapping

\* analyze_mock.load_posts, when no record raises
load_posts(ds, n) == [i \in 1..Len(ds) |-> Normalized(ds[i], n, i - 1)]

InList(x, list) == \E i \in 1..Len(list) : list[i] = x

\* (not subreddits or p.get("subreddit") in subreddits)
subreddit_ok(p, subs) == subs = <<>> \/ InList(p.subreddit, subs)

\* within_hours mutated: the window is compared the wrong way round.
within_hours_inverted(created_utc, hours, t) ==
    created_utc < t - hours * SecondsPerHour

\* within_hours(created_utc, hours), t being what time.time() returns
within_hours(created_utc, hours, t) ==
    created_utc >= t - hours * SecondsPerHour

\* the list comprehension of analyze_live.main's offline branch
RECURSIVE filter_offline(_, _, _)
filter_offline(ps, subs, cut) ==
    IF ps = <<>> THEN <<>>
    ELSE IF subreddit_ok(Head(ps), subs) /\ Head(ps).created_utc >= cut
         THEN <<Head(ps)>> \o filter_offline(Tail(ps), subs, cut)
         ELSE filter_offline(Tail(ps), subs, cut)

\* make_reddit mutated: only the client id is required.
creds_missing_only_id(creds) == creds["REDDIT_CLIENT_ID"] = ""

\* `if not client_id or not client_secret or not user_agent`
creds_missing(creds) == \E c \in CredNames : creds[c] = ""

\* getattr(post, name, default)
GetAttr(e, name, default) == IF e.missing = name THEN default ELSE e[name]

\* post.id, post.title: an AttributeError when the entry has no such attribute
attr_raises(e) == e.missing \in {"id", "title"}

\* the dict fetch_posts appends for an entry, n being its number in the batch
fetched_post(sub, e, created, n) ==
    Post(sub, n, TitleOf(sub), <<>>, created,
         GetAttr(e, "score", 0), GetAttr(e, "num_comments", 0))

\* fetch_posts mutated: an entry older than the cutoff is skipped and the
\* scan goes on.
old_entry_continue == "fetch_entry"

\* where fetch_posts goes on an entry older than the cutoff: `break`
old_entry_break == "fetch_sub_end"

Enriched(p, hits) ==
    [subreddit |-> p.subreddit, id |-> p.id, title |-> p.title,
     selftext |-> p.selftext, created_utc |-> p.created_utc,
     score |-> p.score, num_comments |-> p.num_comments,
     keyword_hits |-> hits, keyword_hit_count |-> Len(hits)]

\* the enrichment loop of main: combined = f'{title} {selftext}'
enrich(ps, keywords) ==
    [i \in 1..Len(ps) |->
        Enriched(ps[i],
                 keyword_hits(Str(ps[i].title \o <<" ">> \o ps[i].selftext),
                              keywords))]

\* the __main__ guard: analyze_live logs "ERROR: ..." and re-raises;
\* analyze_mock calls main() bare.
guard_log(s, lg, t) ==
    IF s = "live" THEN Append(lg, log_line(t, "ERROR")) ELSE lg

\* The artifacts as written: the JSON holds the ranked batch, the CSV one
\* row per post of it, the summary the first N of it.
Artifacts == {"json", "csv", "summary"}
TopN == IF script = "live" THEN TopLive ELSE TopMock
json_posts == IF "json" \in written THEN enriched ELSE <<>>
csv_posts == IF "csv" \in written THEN enriched ELSE <<>>
summary_posts ==
    IF "summary" \in written
    THEN SubSeq(enriched, 1, IF Len(enriched) < TopN THEN Len(enriched) ELSE TopN)
    ELSE <<>>

(***************************************************************************)
(* Spec: one run of analyze_mock.py or of analyze_live.py                  *)
(***************************************************************************)
RankIdle == r_batch = <<>> /\ r_ranked = <<>> /\ r_pc = "idle"
MatchIdle == m_text = NoneText /\ m_keywords = <<>> /\ m_hits = <<>> /\ m_pc = "idle"

UnreadEnv == [offline |-> "unread", praw |-> "unread",
              creds |-> [c \in CredNames |-> "unread"]]

PipelineIdle ==
    /\ script = "none" /\ pc = "idle" /\ clock = Clock0
    /\ cfg = UnsetConfig /\ env = UnreadEnv /\ dataset = <<>>
    /\ now = 0 /\ cutoff = 0 /\ posts = <<>> /\ filtered = <<>> /\ idx = 0
    /\ feed_read = <<>> /\ scanned = 0 /\ kept = 0 /\ enriched = <<>>
    /\ written = {} /\ log = <<>>

Init ==
    /\ script \in {"mock", "live"}
    /\ pc = "start" /\ clock = Clock0
    /\ cfg = UnsetConfig /\ env = UnreadEnv /\ dataset = <<>>
    /\ now = 0 /\ cutoff = 0 /\ posts = <<>> /\ filtered = <<>> /\ idx = 0
    /\ feed_read = <<>> /\ scanned = 0 /\ kept = 0 /\ enriched = <<>>
    /\ written = {} /\ log = <<>>
    /\ MatchIdle /\ RankIdle

Running == pc \notin {"idle", "exit_ok", "exit_error"}

\* An exception leaves main(): the __main__ guard, then the process ends
\* with an error.
Raise ==
    /\ log' = guard_log(script, log, clock)
    /\ pc' = "exit_error"

\* The clock advances by a second.
Tick ==
    /\ Running
    /\ clock < Clock0 + MaxTicks
    /\ clock' = clock + 1
    /\ UNCHANGED <<mvars, rvars, script, pc, cfg, env, dataset, now, cutoff, posts, filtered, idx, feed_read, scanned, kept, enriched, written, log>>

\* cfg = load_config() and the cfg.get(...) lines, then the first log line
LoadConfig ==
    /\ pc = "start"
    /\ \E file \in ConfigFiles :
         IF config_raises(script, file)
         THEN Raise /\ UNCHANGED cfg
         ELSE /\ cfg' = main_config(script, file)
              /\ log' = Append(log, log_line(clock, "Loaded config"))
              /\ pc' = IF script = "live" THEN "make_reddit" ELSE "load_posts"
    /\ UNCHANGED <<mvars, rvars, script, clock, env, dataset, now, cutoff, posts, filtered, idx, feed_read, scanned, kept, enriched, written>>

\* reddit = make_reddit()
MakeReddit ==
    /\ pc = "make_reddit"
    /\ \E e \in Envs :
         IF e.offline
         THEN /\ env' = [UnreadEnv EXCEPT !.offline = "yes"]
              /\ log' = Append(log, log_line(clock, "OFFLINE_MODE=1"))
              /\ pc' = "load_mock_posts"
         ELSE IF ~e.praw
         THEN /\ env' = [UnreadEnv EXCEPT !.offline = "no", !.praw = "no"]
              /\ Raise
         ELSE /\ env' = [offline |-> "no", praw |-> "yes", creds |-> e.creds]
              /\ IF creds_missing(e.creds)
                 THEN Raise
                 ELSE /\ log' = Append(log, log_line(clock, "Reddit client initialized"))
                      /\ pc' = "fetch_posts"
    /\ UNCHANGED <<mvars, rvars, script, clock, cfg, dataset, now, cutoff, posts, filtered, idx, feed_read, scanned, kept, enriched, written>>

\* open(...) or json.load of mock_posts.json raises
DatasetUnreadable ==
    /\ pc \in {"load_mock_posts", "load_posts"}
    /\ Raise
    /\ UNCHANGED <<mvars, rvars, script, clock, cfg, env, dataset, now, cutoff, posts, filtered, idx, feed_read, scanned, kept, enriched, written>>

\* analyze_live: posts = load_mock_posts()
LoadMockPosts ==
    /\ pc = "load_mock_posts"
    /\ \E n \in 0..MaxRecords : \E f \in [1..n -> RecordShapes] :
         LET ds == Dataset(n, f) IN
         /\ dataset' = ds
         /\ now' = clock
         /\ posts' = load_mock_posts(ds, clock, 0)
    /\ pc' = "filter_offline"
    /\ UNCHANGED <<mvars, rvars, script, clock, cfg, env, cutoff, filtered, idx, feed_read, scanned, kept, enriched, written, log>>

\* analyze_live: cutoff = ...; posts = [p for p in posts if ...]; log(...)
FilterOffline ==
    /\ pc = "filter_offline"
    /\ cutoff' = clock - cfg.hours * SecondsPerHour
    /\ posts' = filter_offline(posts, cfg.subreddits, cutoff')
    /\ log' = Append(log, log_line(clock, "Loaded mock posts kept"))
    /\ pc' = "enrich"
    /\ UNCHANGED <<mvars, rvars, script, clock, cfg, env, dataset, now, filtered, idx, feed_read, scanned, kept, enriched, written>>

\* fetch_posts is entered: all_posts = [], cutoff = int(time.time()) - ...
FetchPosts ==
    /\ pc = "fetch_posts"
    /\ posts' = <<>>
    /\ cutoff' = clock - cfg.hours * SecondsPerHour
    /\ idx' = 1
    /\ pc' = "fetch_sub"
    /\ UNCHANGED <<mvars, rvars, script, clock, cfg, env, dataset, now, filtered, feed_read, scanned, kept, enriched, written, log>>

\* `for sub in subreddits`: the next community, or the return to main
FetchSub ==
    /\ pc = "fetch_sub"
    /\ IF idx > Len(cfg.subreddits)
       THEN /\ log' = Append(log, log_line(clock, "Total posts kept"))
            /\ pc' = "enrich"
            /\ UNCHANGED <<feed_read, scanned, kept>>
       ELSE /\ log' = Append(log, log_line(clock, "Fetching"))
            /\ feed_read' = <<>>
            /\ scanned' = 0
            /\ kept' = 0
            /\ pc' = "fetch_entry"
    /\ UNCHANGED <<mvars, rvars, script, clock, cfg, env, dataset, now, cutoff, posts, filtered, idx, enriched, written>>

\* sr.new(limit=per_sub_limit) has no further entry
FeedExhausted ==
    /\ pc = "fetch_entry"
    /\ pc' = "fetch_sub_end"
    /\ UNCHANGED <<mvars, rvars, script, clock, cfg, env, dataset, now, cutoff, posts, filtered, idx, feed_read, scanned, kept, enriched, written, log>>

\* sr.new(limit=per_sub_limit) yields an entry: the body of the inner loop
FetchEntry ==
    /\ pc = "fetch_entry"
    /\ Len(feed_read) < cfg.per_sub_limit
    /\ Len(feed_read) < MaxFeed
    /\ \E e \in FeedEntries :
         LET created == GetAttr(e, "created_utc", 0) IN
         /\ feed_read' = Append(feed_read, e)
         /\ scanned' = scanned + 1
         /\ IF created < cutoff
            THEN /\ pc' = old_entry_break
                 /\ UNCHANGED <<posts, kept, log>>
            ELSE IF attr_raises(e)
            THEN /\ Raise
                 /\ UNCHANGED <<posts, kept>>
            ELSE /\ posts' = Append(posts,
                        fetched_post(cfg.subreddits[idx], e, created, Len(posts) + 1))
                 /\ kept' = kept + 1
                 /\ UNCHANGED <<pc, log>>
    /\ UNCHANGED <<mvars, rvars, script, clock, cfg, env, dataset, now, cutoff, filtered, idx, enriched, written>>

\* log(f"r/{sub}: scanned=..., kept_in_window=..."); time.sleep(...)
FetchSubEnd ==
    /\ pc = "fetch_sub_end"
    /\ log' = Append(log, log_line(clock, "scanned, kept_in_window"))
    /\ idx' = idx + 1
    /\ pc' = "fetch_sub"
    /\ UNCHANGED <<mvars, rvars, script, clock, cfg, env, dataset, now, cutoff, posts, filtered, feed_read, scanned, kept, enriched, written>>

\* analyze_mock: posts = load_posts(); log(...)
LoadPosts ==
    /\ pc = "load_posts"
    /\ \E n \in 0..MaxRecords : \E f \in [1..n -> RecordShapes] :
         LET ds == Dataset(n, f) IN
         /\ dataset' = ds
         /\ now' = clock
         /\ IF load_posts_raises(ds)
            THEN /\ Raise
                 /\ UNCHANGED <<posts, filtered, idx>>
            ELSE /\ posts' = load_posts(ds, clock)
                 /\ log' = Append(log, log_line(clock, "Loaded mock posts"))
                 /\ filtered' = <<>>
                 /\ idx' = 1
                 /\ pc' = IF ds = <<>> THEN "enrich" ELSE "filter"
    /\ UNCHANGED <<mvars, rvars, script, clock, cfg, env, cutoff, feed_read, scanned, kept, enriched, written>>

\* analyze_mock: one round of `for p in posts`, which reads the clock
MockFilter ==
    /\ pc = "filter"
    /\ LET p == posts[idx] IN
       filtered' =
         IF /\ subreddit_ok(p, cfg.subreddits)
            /\ within_hours(p.created_utc, cfg.hours, clock)
         THEN Append(filtered, p) ELSE filtered
    /\ idx' = idx + 1
    /\ pc' = IF idx = Len(posts) THEN "enrich" ELSE "filter"
    /\ UNCHANGED <<mvars, rvars, script, clock, cfg, env, dataset, now, cutoff, posts, feed_read, scanned, kept, enriched, written, log>>

\* the enrichment loop and enriched.sort(...)
Enrich ==
    /\ pc = "enrich"
    /\ enriched' = rank(enrich(IF script = "mock" THEN filtered ELSE posts,
                               cfg.keywords))
    /\ pc' = "write"
    /\ UNCHANGED <<mvars, rvars, script, clock, cfg, env, dataset, now, cutoff, posts, filtered, idx, feed_read, scanned, kept, written, log>>

\* The artifacts in the order main() writes them
WriteOrder == <<"json", "csv", "summary">>

\* The three `with open(...)` blocks of main: each artifact is written in
\* turn, and the first write that raises ends the run with the earlier
\* artifacts left on disk.
WriteReports ==
    /\ pc = "write"
    /\ \E n \in 0..Len(WriteOrder) :
         /\ written' = {WriteOrder[i] : i \in 1..n}
         /\ IF n = Len(WriteOrder)
            THEN pc' = "log_done" /\ UNCHANGED log
            ELSE Raise
    /\ UNCHANGED <<mvars, rvars, script, clock, cfg, env, dataset, now, cutoff, posts, filtered, idx, feed_read, scanned, kept, enriched>>

\* log("Wrote: ..."); log("DONE")
LogDone ==
    /\ pc = "log_done"
    /\ log' = log \o <<log_line(clock, "Wrote"), log_line(clock, "DONE")>>
    /\ pc' = "exit_ok"
    /\ UNCHANGED <<mvars, rvars, script, clock, cfg, env, dataset, now, cutoff, posts, filtered, idx, feed_read, scanned, kept, enriched, written>>

Next ==
    \/ Tick
    \/ LoadConfig
    \/ MakeReddit
    \/ DatasetUnreadable
    \/ LoadMockPosts
    \/ FilterOffline
    \/ FetchPosts
    \/ FetchSub
    \/ FeedExhausted
    \/ FetchEntry
    \/ FetchSubEnd
    \/ LoadPosts
    \/ MockFilter
    \/ Enrich
    \/ WriteReports
    \/ LogDone

Spec == Init /\ [][Next]_vars

(***************************************************************************)
(* SpecMatch: keyword_hits applied to every bounded text and keyword list  *)
(***************************************************************************)

InitMatch ==
    /\ \/ /\ \/ \E n \in 0..MaxText : \E s \in [1..n -> Alphabet] : m_text = Str(s)
             \/ m_text = NoneText
          /\ \E n \in 0..MaxKeywords : m_keywords \in [1..n -> KeywordChoices]
       \/ m_text = ScenarioText /\ m_keywords = ScenarioKeywords
    /\ m_hits = <<>>
    /\ m_pc = "ready"
    /\ RankIdle
    /\ PipelineIdle

MatchCall ==
    /\ m_pc = "ready"
    /\ m_hits' = keyword_hits(m_text, m_keywords)
    /\ m_pc' = "done"
    /\ UNCHANGED <<m_text, m_keywords, rvars, pvars>>

NextMatch == MatchCall

SpecMatch == InitMatch /\ [][NextMatch]_vars

(***************************************************************************)
(* SpecRank: the ranking sort applied to every bounded batch               *)
(***************************************************************************)
InitRank ==
    /\ \E n \in 0..MaxBatch :
         \E f \in [1..n -> HitCounts \X Scores \X CommentCounts] :
           r_batch = Batch(n, f)
    /\ r_ranked = <<>>
    /\ r_pc = "ready"
    /\ MatchIdle
    /\ PipelineIdle

RankCall ==
    /\ r_pc = "ready"
    /\ r_ranked' = rank(r_batch)
    /\ r_pc' = "done"
    /\ UNCHANGED <<r_batch, mvars, pvars>>

NextRank == RankCall

SpecRank == InitRank /\ [][NextRank]_vars

(***************************************************************************)
(* Claims                                                                  *)
(***************************************************************************)
Last(seq) == seq[Len(seq)]
Range(seq) == {seq[i] : i \in 1..Len(seq)}
Falsy(k) == k.none \/ k.s = <<>>

\* ---- C2 ----------------------------------------------------------------
\* Declaratively: is key (h1, s1, c1) at or above key (h2, s2, c2)?
KeyGE(x, y) ==
    \/ x.keyword_hit_count > y.keyword_hit_count
    \/ /\ x.keyword_hit_count = y.keyword_hit_count
       /\ \/ x.score > y.score
          \/ x.score = y.score /\ x.num_comments >= y.num_comments

KeyEq(x, y) ==
    /\ x.keyword_hit_count = y.keyword_hit_count
    /\ x.score = y.score
    /\ x.num_comments = y.num_comments

\* A(hits=2, score=10), B(hits=2, score=20), C(hits=1, score=100)
ScenarioBatch ==
    <<RankedPost(1, 2, 10, 0), RankedPost(2, 2, 20, 0), RankedPost(3, 1, 100, 0)>>

\* C2: the ranking step returns a permutation of the batch, in descending
\* lexicographic order of (keyword_hit_count, score, num_comments), in which
\* posts equal on all three keys keep their order of the input; the batch
\* A, B, C of the specification ranks as B, A, C.
C2_RankSortedStablePermutation ==
    r_pc = "done" =>
      /\ Len(r_ranked) = Len(r_batch)
      /\ {r_ranked[i].id : i \in 1..Len(r_ranked)} = 1..Len(r_batch)
      /\ \A i \in 1..Len(r_ranked) : r_ranked[i] = r_batch[r_ranked[i].id]
      /\ \A i, j \in 1..Len(r_ranked) :
           i < j =>
             /\ KeyGE(r_ranked[i], r_ranked[j])
             /\ KeyEq(r_ranked[i], r_ranked[j]) => r_ranked[i].id < r_ranked[j].id
      /\ r_batch = ScenarioBatch =>
           [i \in 1..3 |-> r_ranked[i].id] = <<2, 1, 3>>

\* A ranked batch that holds a tie on all three keys and was reordered.
C2_Witness ==
    /\ r_pc = "done"
    /\ r_ranked # r_batch
    /\ \E i, j \in 1..Len(r_batch) : i < j /\ KeyEq(r_batch[i], r_batch[j])

\* ---- C3 ----------------------------------------------------------------
\* C3: keyword_hits returns no empty or falsy keyword ("" or None), so that
\* such a keyword never counts in keyword_hit_count, whatever the text is.
C3_FalsyKeywordNeverHit ==
    m_pc = "done" => \A i \in 1..Len(m_hits) : ~Falsy(m_hits[i])

\* ---- C4 ----------------------------------------------------------------
\* Declaratively: needle occurs in hay at some offset.
Occurs(needle, hay) ==
    \E off \in 0..Len(hay) :
      /\ off + Len(needle) <= Len(hay)
      /\ \A j \in 1..Len(needle) : hay[off + j] = needle[j]

KeywordOccurs(k) == Occurs(Lower(OrEmpty(k)), Lower(OrEmpty(m_text)))

\* C4: keyword_hits is exactly the subsequence of the configured keywords
\* (same order, original casing, a repeated keyword repeated) that occur as
\* a case-insensitive substring of the lower-cased text, a falsy keyword
\* being read as the empty string; ["fix", "repair"] on "Need a Fix for my
\* car" gives ["fix"].
C4_HitsAreTheOccurringKeywords ==
    m_pc = "done" =>
      /\ m_hits = SelectSeq(m_keywords, KeywordOccurs)
      /\ (m_text = ScenarioText /\ m_keywords = ScenarioKeywords) => m_hits = <<KwFix>>

\* A keyword configured twice, in upper case, found in a lower-case text
\* and returned twice as configured.
C4_Witness ==
    /\ m_pc = "done"
    /\ Len(m_keywords) = 2
    /\ m_keywords[1] = m_keywords[2]
    /\ m_keywords[1].s # <<>>
    /\ Lower(m_keywords[1].s) # m_keywords[1].s
    /\ m_hits = m_keywords

\* ---- C1 ----------------------------------------------------------------
\* The posts of the artifacts on disk
OutputPosts == Range(json_posts) \cup Range(csv_posts) \cup Range(summary_posts)

LiveMode == script = "live" /\ env.offline = "no"

\* The run's `now`: the clock reading of the loader (offline) or the one
\* fetch_posts derives its cutoff from (live).
RunNow == IF LiveMode THEN cutoff + cfg.hours * SecondsPerHour ELSE now

\* window_hours as configured, 72 when the configuration gives none
ConfiguredWindow ==
    IF cfg.window_hours = 0 THEN DefaultWindowHours ELSE cfg.window_hours

\* C1 as stated: no post of the artifacts is older than now minus the
\* configured window, in either pipeline.
C1_NoPostOlderThanConfiguredWindow ==
    \A p \in OutputPosts :
      p.created_utc >= RunNow - ConfiguredWindow * SecondsPerHour

\* No post of the artifacts is older than the run's `now` minus the window
\* the pipeline applies.
C1_OutputInAppliedWindow ==
    \A p \in OutputPosts :
      p.created_utc >= RunNow - cfg.hours * SecondsPerHour

\* C1, amended: no post of the artifacts is older than now minus the window
\* the pipeline applies: the configured window_hours (72 when absent or
\* zero) in analyze_live, the fixed 72 hours in analyze_mock, where a post
\* that analyze_mock keeps is inside the window at the clock reading of its
\* own test.
C1_NoPostOlderThanAppliedWindow ==
    /\ []C1_OutputInAppliedWindow
    /\ [][ filtered' # filtered
           => Last(filtered').created_utc >= clock - MockWindowHours * SecondsPerHour ]_vars

\* A finished run that wrote a post and left out a record or entry older
\* than the window.
C1_Witness ==
    /\ pc = "exit_ok"
    /\ OutputPosts # {}
    /\ \/ \E i \in 1..Len(dataset) :
            /\ dataset[i].mapping
            /\ dataset[i].created_utc # 0
            /\ dataset[i].created_utc < RunNow - cfg.hours * SecondsPerHour
            /\ \A p \in OutputPosts : p.id # dataset[i].id
       \/ /\ LiveMode
          /\ feed_read # <<>>
          /\ Last(feed_read).created_utc < cutoff

\* ---- C5 ----------------------------------------------------------------
IsMapping(r) == r.mapping

\* C5: a dataset that holds a record that is no mapping is loaded without
\* that record: the loader does not raise, and every well-formed record is
\* loaded, in both offline loaders.
C5_MalformedRecordDropped ==
    [][ ( /\ pc \in {"load_posts", "load_mock_posts"}
          /\ dataset' # dataset
          /\ \E i \in 1..Len(dataset') : ~dataset'[i].mapping )
        => /\ pc' # "exit_error"
           /\ [i \in 1..Len(posts') |-> posts'[i].id]
                = [i \in 1..Len(SelectSeq(dataset', IsMapping)) |->
                     SelectSeq(dataset', IsMapping)[i].id] ]_vars

\* ---- C6 ----------------------------------------------------------------
\* C6: a feed entry that lacks a field is given the default and kept or
\* filtered like any other entry: the step that reads it does not raise,
\* and an entry inside the window is appended to the batch.
C6_EntryLackingFieldDefaulted ==
    [][ ( /\ pc = "fetch_entry"
          /\ feed_read' # feed_read
          /\ Last(feed_read').missing # "none" )
        => /\ pc' # "exit_error"
           /\ GetAttr(Last(feed_read'), "created_utc", 0) >= cutoff
                => Len(posts') = Len(posts) + 1 ]_vars

\* ---- C7 ----------------------------------------------------------------
EntryOld(e) == GetAttr(e, "created_utc", 0) < cutoff

\* While a community is scanned: every entry read before the last one was
\* inside the window and is kept, in order, at the end of the batch; after
\* an entry older than the cutoff nothing more is read.
C7_ScanInvariant ==
    pc \in {"fetch_entry", "fetch_sub_end"} =>
      /\ scanned = Len(feed_read)
      /\ scanned <= cfg.per_sub_limit
      /\ \A i \in 1..(Len(feed_read) - 1) : ~EntryOld(feed_read[i])
      /\ feed_read # <<>> /\ EntryOld(Last(feed_read)) =>
           /\ pc = "fetch_sub_end"
           /\ kept = Len(feed_read) - 1
      /\ kept <= Len(posts)
      /\ \A j \in 1..kept :
           LET p == posts[Len(posts) - kept + j] IN
           /\ p.subreddit = cfg.subreddits[idx]
           /\ p.created_utc = feed_read[j].created_utc

\* C7: in live mode fetch_posts stops reading a community on the first
\* entry older than the cutoff, keeps exactly the entries before it (at
\* most per_sub_limit), and goes on to the next community without raising.
C7_EarlyStopPerCommunity ==
    /\ []C7_ScanInvariant
    /\ [][ (pc = "fetch_sub_end" /\ pc' # pc)
           => pc' = "fetch_sub" /\ idx' = idx + 1 /\ posts' = posts ]_vars

\* The second community's scan stopped on an old entry after one kept
\* entry, the first community having contributed a post.
C7_Witness ==
    /\ pc = "fetch_sub_end"
    /\ idx = 2
    /\ Len(feed_read) = 2
    /\ EntryOld(Last(feed_read))
    /\ kept = 1
    /\ Len(posts) = 2

\* ---- C8 ----------------------------------------------------------------
\* C8: in live mode with a credential missing or blank the run ends with an
\* error before any fetch: no feed was requested, no post enriched, no
\* artifact written.
C8_MissingCredentialsFatalBeforeFetch ==
    ( /\ script = "live"
      /\ env.offline = "no"
      /\ \E c \in CredNames : env.creds[c] = "" )
    => /\ pc = "exit_error"
       /\ Last(log).msg = "ERROR"
       /\ \A i \in 1..Len(log) : log[i].msg # "Fetching"
       /\ cutoff = 0 /\ posts = <<>> /\ feed_read = <<>> /\ scanned = 0
       /\ enriched = <<>>
       /\ written = {}

\* Only the user agent is blank, and the run has ended with an error.
C8_Witness ==
    /\ script = "live"
    /\ env.offline = "no"
    /\ env.creds["REDDIT_USER_AGENT"] = ""
    /\ env.creds["REDDIT_CLIENT_ID"] = "x"
    /\ env.creds["REDDIT_CLIENT_SECRET"] = "x"
    /\ pc = "exit_error"

\* ---- C9 ----------------------------------------------------------------
\* C9: in both pipelines a run that ends with an error has appended an
\* error line to the run log, and "DONE" is logged only by a run that wrote
\* all three artifacts.
C9_FailureLoggedDoneOnlyAfterWrites ==
    /\ pc = "exit_error" => log # <<>> /\ Last(log).msg = "ERROR"
    /\ (\E i \in 1..Len(log) : log[i].msg = "DONE") => written = Artifacts

\* ---- C10 ---------------------------------------------------------------
\* The filtering of an offline run is over.
OfflineFiltered ==
    /\ script = "mock" \/ env.offline = "yes"
    /\ pc \in {"enrich", "write", "log_done", "exit_ok"}

KeptPosts == IF script = "mock" THEN filtered ELSE posts
KeptRecord(i) == \E j \in 1..Len(KeptPosts) : KeptPosts[j].id = dataset[i].id
Candidate(i) == dataset[i].mapping /\ subreddit_ok(dataset[i], cfg.subreddits)
CreatedOf(i) == Normalized(dataset[i], now, i - 1).created_utc

\* C10: one `now` decides a whole run: two records of the allowed
\* communities with the same created_utc are both kept or both dropped, and
\* an undated record at index i is kept exactly when i*6 <= window hours.
C10_OneNowPerRun ==
    OfflineFiltered =>
      /\ \A i, j \in 1..Len(dataset) :
           (Candidate(i) /\ Candidate(j) /\ CreatedOf(i) = CreatedOf(j))
             => (KeptRecord(i) <=> KeptRecord(j))
      /\ \A i \in 1..Len(dataset) :
           (Candidate(i) /\ dataset[i].created_utc = 0)
             => (KeptRecord(i) <=> (i - 1) * SpreadHours <= cfg.hours)

====
